---- MODULE Spec2Model ----
(***************************************************************************)
(* Sparsity-pattern tools (casadi/matrix/sparsity_tools.cpp) and the       *)
(* sparse QR kernel casadi_qr (casadi/core/runtime/casadi_runtime.hpp).    *)
(*                                                                         *)
(* C arrays are sequences: the C element v[i] is v[i+1] here (Get, Set).   *)
(* A CRSSparsity is a record [nrow, ncol, rowind, col].  A call returns    *)
(* [status, sp, mapping]: status is "ok", or "error" when the call throws. *)
(***************************************************************************)
EXTENDS Integers, Sequences, FiniteSets, TLC

\* The sparsity tools: the last constructor call (op, arg, res) and the last
\* transformation of its result (out).
\* casadi_qr: its arguments (inst), the caller's buffers iw and x, the output
\* nz_r (as the (row, column) of each value written), its locals, and
\* three history variables: the rows marked (visited), pushed on the stack
\* (pushed) and counted into V(:,c) (disc) while column c is processed.
VARIABLES phase, op, arg, res, out,
          pc, inst, iw, x, c, k, r, len, top, k1, nnz_v, nnz_r, nz_r,
          visited, pushed, disc

spvars == <<phase, op, arg, res, out>>
qrvars == <<pc, inst, iw, x, c, k, r, len, top, k1, nnz_v, nnz_r, nz_r,
            visited, pushed, disc>>
vars == <<phase, op, arg, res, out,
          pc, inst, iw, x, c, k, r, len, top, k1, nnz_v, nnz_r, nz_r,
          visited, pushed, disc>>

(* ------------------------------ bounds --------------------------------- *)
\* most elements (nrow * ncol) of a pattern handed to or built by a constructor
MaxCells == 4
\* longest index list handed to a constructor
MaxLen == 3
\* largest n handed to sp_tril, sp_diag, sp_band
MaxN == 3

(* ------------------------------ helpers -------------------------------- *)
Get(v, i) == v[i + 1]
Set(v, i, val) == [v EXCEPT ![i + 1] = val]
Zeros(n) == [i \in 1..n |-> 0]
Max2(a, b) == IF a > b THEN a ELSE b
Min2(a, b) == IF a < b THEN a ELSE b
Abs(a) == IF a < 0 THEN -a ELSE a
SeqsUpTo(S, n) == UNION {[1..m -> S] : m \in 0..n}

NoSp == [nrow |-> 0, ncol |-> 0, rowind |-> <<0>>, col |-> <<>>]
Ok(sp) == [status |-> "ok", sp |-> sp, mapping |-> <<>>]
OkMap(sp, mapping) == [status |-> "ok", sp |-> sp, mapping |-> mapping]
Error == [status |-> "error", sp |-> NoSp, mapping |-> <<>>]

(* ------------------- CRSSparsity (class not in src/) ------------------- *)
\* CRSSparsity(nrow, ncol, col, rowind): stores the four fields.
CRSSparsity(nrow, ncol, col, rowind) ==
  [nrow |-> nrow, ncol |-> ncol, rowind |-> rowind, col |-> col]

\* The data-model invariant of a pattern.
WellFormed(a) ==
  /\ Len(a.rowind) = a.nrow + 1
  /\ Get(a.rowind, 0) = 0
  /\ \A i \in 0..(a.nrow - 1) : Get(a.rowind, i) <= Get(a.rowind, i + 1)
  /\ Get(a.rowind, a.nrow) = Len(a.col)
  /\ \A q \in 1..Len(a.col) : a.col[q] >= 0 /\ a.col[q] < a.ncol

size(a) == Len(a.col)
numel(a) == a.nrow * a.ncol

\* getRow(): the row of every stored nonzero, from rowind.
getRow(a) ==
  [q \in 1..Len(a.col) |->
     CHOOSE i \in 0..(a.nrow - 1) :
       Get(a.rowind, i) <= q - 1 /\ q - 1 < Get(a.rowind, i + 1)]

\* columnsSequential(strictly): columns (strictly) increasing inside each row.
columnsSequential(a, strictly) ==
  \A i \in 0..(a.nrow - 1) :
    \A q \in (Get(a.rowind, i) + 1)..(Get(a.rowind, i + 1) - 1) :
      IF strictly THEN Get(a.col, q - 1) < Get(a.col, q)
                  ELSE Get(a.col, q - 1) <= Get(a.col, q)

\* The stored nonzeros of column j, as storage indices in row-major order.
RECURSIVE InColumn(_, _, _)
InColumn(a, j, q) ==
  IF q >= Len(a.col) THEN <<>>
  ELSE (IF Get(a.col, q) = j THEN <<q>> ELSE <<>>) \o InColumn(a, j, q + 1)

RECURSIVE Buckets(_, _)
Buckets(a, j) ==
  IF j >= a.ncol THEN <<>> ELSE InColumn(a, j, 0) \o Buckets(a, j + 1)

RECURSIVE BucketPtr(_, _, _)
BucketPtr(a, j, acc) ==
  IF j >= a.ncol THEN <<acc>>
  ELSE <<acc>> \o BucketPtr(a, j + 1, acc + Len(InColumn(a, j, 0)))

\* transpose(mapping): bucket the nonzeros by column, in row-major order;
\* mapping[q] is the storage index in a of the q-th nonzero of the result.
\* A column index outside [0, ncol) is reported as an error.
transpose(a) ==
  IF \E q \in 1..Len(a.col) : a.col[q] < 0 \/ a.col[q] >= a.ncol THEN Error
  ELSE LET m == Buckets(a, 0)
           rows == getRow(a)
       IN OkMap(CRSSparsity(a.ncol, a.nrow,
                            [q \in 1..Len(m) |-> Get(rows, m[q])],
                            BucketPtr(a, 0, 0)),
                m)

\* removeDuplicates(mapping): of every run of equal columns inside a row one
\* entry survives, with the mapping entry of one member of the run
\* (keepLast chooses which).
Survives(a, rows, q, keepLast) ==
  IF keepLast
  THEN q = Len(a.col) - 1 \/ Get(rows, q + 1) # Get(rows, q)
                          \/ Get(a.col, q + 1) # Get(a.col, q)
  ELSE q = 0 \/ Get(rows, q - 1) # Get(rows, q)
             \/ Get(a.col, q - 1) # Get(a.col, q)

RECURSIVE Survivors(_, _, _, _)
Survivors(a, rows, q, keepLast) ==
  IF q >= Len(a.col) THEN <<>>
  ELSE (IF Survives(a, rows, q, keepLast) THEN <<q>> ELSE <<>>)
       \o Survivors(a, rows, q + 1, keepLast)

RECURSIVE CountRows(_, _, _)
CountRows(rows, i, nrow) ==
  IF i > nrow THEN <<>>
  ELSE <<Cardinality({q \in 1..Len(rows) : rows[q] < i})>>
       \o CountRows(rows, i + 1, nrow)

removeDuplicates(a, mapping, keepLast) ==
  LET rows == getRow(a)
      keep == Survivors(a, rows, 0, keepLast)
      newrows == [q \in 1..Len(keep) |-> Get(rows, keep[q])]
  IN OkMap(CRSSparsity(a.nrow, a.ncol,
                       [q \in 1..Len(keep) |-> Get(a.col, keep[q])],
                       CountRows(newrows, 0, a.nrow)),
           [q \in 1..Len(keep) |-> Get(mapping, keep[q])])

(* ------------------------- basic constructors -------------------------- *)
RECURSIVE tril_col(_, _, _, _)
tril_col(i, n, t, cc) ==
  IF i >= n THEN <<>>
  ELSE <<t>> \o tril_col(i + 1, n, IF t + 1 > cc THEN 0 ELSE t + 1,
                         IF t + 1 > cc THEN cc + 1 ELSE cc)

RECURSIVE tril_rowind(_, _, _)
tril_rowind(i, n, prev) ==
  IF i > n THEN <<>>
  ELSE <<prev + 1 + (i - 1)>> \o tril_rowind(i + 1, n, prev + 1 + (i - 1))

sp_tril(n) ==
  IF n < 0 THEN Error
  ELSE Ok(CRSSparsity(n, n, tril_col(0, (n * (n + 1)) \div 2, 0, 0),
                      <<0>> \o tril_rowind(1, n, 0)))

sp_diag(n) ==
  IF ~(n >= 0) THEN Error
  ELSE Ok(CRSSparsity(n, n, [i \in 1..n |-> i - 1],
                      [i \in 1..(n + 1) |-> i - 1]))

sp_band(n, p) ==
  IF ~(n >= 0) THEN Error
  ELSE IF ~(Abs(p) < n) THEN Error
  ELSE LET nc == n - Abs(p)
       IN Ok(CRSSparsity(n, n,
                         [i \in 1..nc |-> (i - 1) + Max2(p, 0)],
                         [i \in 1..(n + 1) |->
                            Max2(Min2((i - 1) + Min2(p, 0), nc), 0)]))

\* while (z<lim) rowind.at(++z)=cnt;  at() throws past the end of rowind.
RECURSIVE fill_rowind(_, _)
fill_rowind(st, lim) ==
  IF st.oor \/ ~(st.z < lim) THEN st
  ELSE IF st.z + 1 >= Len(st.rowind) THEN [st EXCEPT !.oor = TRUE]
  ELSE fill_rowind([st EXCEPT !.z = st.z + 1,
                              !.rowind = Set(st.rowind, st.z + 1, st.cnt)], lim)

\* rowind.at(i) = val
put_rowind(st, i, val) ==
  IF st.oor THEN st
  ELSE IF i >= Len(st.rowind) THEN [st EXCEPT !.oor = TRUE]
  ELSE [st EXCEPT !.rowind = Set(st.rowind, i, val)]

\* A faulty variant of the loop that adds 1 instead of col.size() per row.
RECURSIVE rowcol_loop_unit(_, _, _, _)
rowcol_loop_unit(st, row, kk, ncols) ==
  IF st.oor THEN st
  ELSE IF kk >= Len(row) THEN st
  ELSE LET st1 == fill_rowind(st, Get(row, kk))
           st2 == put_rowind([st1 EXCEPT !.cnt = st1.cnt + 1],
                             Get(row, kk) + 1, st1.cnt + 1)
       IN rowcol_loop_unit(st2, row, kk + 1, ncols)

RECURSIVE rowcol_loop(_, _, _, _)
rowcol_loop(st, row, kk, ncols) ==
  IF st.oor THEN st
  ELSE IF kk >= Len(row) THEN st
  ELSE LET st1 == fill_rowind(st, Get(row, kk))
           st2 == put_rowind([st1 EXCEPT !.cnt = st1.cnt + ncols],
                             Get(row, kk) + 1, st1.cnt + ncols)
       IN rowcol_loop(st2, row, kk + 1, ncols)

RECURSIVE repeat_col(_, _)
repeat_col(col, n) == IF n <= 0 THEN <<>> ELSE col \o repeat_col(col, n - 1)

sp_rowcol(row, col, nrow, ncol) ==
  LET st0 == [rowind |-> Zeros(nrow + 1), z |-> 0, cnt |-> 0, oor |-> FALSE]
      st1 == rowcol_loop(st0, row, 0, Len(col))
      st2 == fill_rowind(st1, nrow)
  IN IF st2.oor THEN Error
     ELSE Ok(CRSSparsity(nrow, ncol, repeat_col(col, Len(row)), st2.rowind))

RECURSIVE NZ_loop(_, _, _)
NZ_loop(st, row, kk) ==
  IF st.oor THEN st
  ELSE IF kk >= Len(row) THEN st
  ELSE LET st1 == fill_rowind(st, Get(row, kk))
           st2 == put_rowind([st1 EXCEPT !.cnt = st1.cnt + 1],
                             Get(row, kk) + 1, st1.cnt)
       IN NZ_loop(st2, row, kk + 1)

sp_NZ(row, col, nrow, ncol, monotone) ==
  IF Len(row) # Len(col) THEN Error
  ELSE IF monotone = FALSE THEN Error
  ELSE LET st0 == [rowind |-> Zeros(nrow + 1), z |-> 0, cnt |-> 0,
                   oor |-> FALSE]
           st1 == NZ_loop(st0, row, 0)
           st2 == fill_rowind(st1, nrow)
       IN IF st2.oor THEN Error
          ELSE Ok(CRSSparsity(nrow, ncol, col, st2.rowind))

(* ------------------------------ sp_triplet ----------------------------- *)
\* Number of elements on each row: rowcount[*it+1]++, after the bound check.
RECURSIVE triplet_count(_, _, _, _)
triplet_count(rowcount, row, kk, nrow) ==
  IF kk >= Len(row) THEN [err |-> FALSE, rowcount |-> rowcount]
  ELSE IF ~(Get(row, kk) < nrow) THEN [err |-> TRUE, rowcount |-> rowcount]
  ELSE triplet_count(Set(rowcount, Get(row, kk) + 1,
                         Get(rowcount, Get(row, kk) + 1) + 1),
                     row, kk + 1, nrow)

\* Cumsum to get the index offset of each row.
RECURSIVE triplet_cumsum(_, _, _)
triplet_cumsum(rowcount, i, nrow) ==
  IF i >= nrow THEN rowcount
  ELSE triplet_cumsum(Set(rowcount, i + 1,
                          Get(rowcount, i + 1) + Get(rowcount, i)),
                      i + 1, nrow)

\* A faulty variant of the scatter pass that records the output slot itself
\* instead of the input index.
triplet_place_slot(st, row, col, kk) ==
  LET newk == Get(st.rowcount, Get(row, kk))
  IN [rowcount |-> Set(st.rowcount, Get(row, kk), newk + 1),
      mapping |-> Set(st.mapping, newk, newk),
      newcol |-> Set(st.newcol, newk, Get(col, kk))]

\* One pass of the scatter loop: newk = rowcount[row[k]]++;
\* mapping[newk] = k; newcol[newk] = col[k].
triplet_place(st, row, col, kk) ==
  LET newk == Get(st.rowcount, Get(row, kk))
  IN [rowcount |-> Set(st.rowcount, Get(row, kk), newk + 1),
      mapping |-> Set(st.mapping, newk, kk),
      newcol |-> Set(st.newcol, newk, Get(col, kk))]

RECURSIVE triplet_scatter(_, _, _, _)
triplet_scatter(st, row, col, kk) ==
  IF kk >= Len(row) THEN st
  ELSE triplet_scatter(triplet_place(st, row, col, kk), row, col, kk + 1)

\* A faulty variant that never sorts.
triplet_sort_skipped(ret, mapping, columns_are_sorted) == OkMap(ret, mapping)

\* Transpose twice if the columns need sorting, composing the mapping.
triplet_sort(ret, mapping, columns_are_sorted) ==
  IF ~columns_are_sorted /\ ~columnsSequential(ret, FALSE)
  THEN LET t1 == transpose(ret)
           trans_mapping == [q \in 1..Len(t1.mapping) |->
                               Get(mapping, t1.mapping[q])]
           t2 == transpose(t1.sp)
       IN IF t1.status # "ok" THEN Error
          ELSE IF t2.status # "ok" THEN Error
          ELSE OkMap(t2.sp, [q \in 1..Len(t2.mapping) |->
                               Get(trans_mapping, t2.mapping[q])])
  ELSE OkMap(ret, mapping)

\* A faulty variant that never removes duplicates.
triplet_dedupe_skipped(sorted, columns_are_sorted, keepLast) == sorted

\* If the columns are not strictly sorted there are duplicate entries.
triplet_dedupe(sorted, columns_are_sorted, keepLast) ==
  IF sorted.status # "ok" THEN Error
  ELSE IF ~columns_are_sorted /\ ~columnsSequential(sorted.sp, TRUE)
  THEN LET d == removeDuplicates(sorted.sp, sorted.mapping, keepLast)
       IN IF columnsSequential(d.sp, TRUE) THEN d ELSE Error
  ELSE sorted

\* keepLast is not an argument of the C++ function: it is the choice
\* removeDuplicates makes of the surviving member of a run of duplicates.
sp_triplet(nrow, ncol, row, col, columns_are_sorted, keepLast) ==
  IF Len(row) # Len(col) THEN Error
  ELSE LET cnt == triplet_count(Zeros(nrow + 1), row, 0, nrow)
           rowcount == triplet_cumsum(cnt.rowcount, 0, nrow)
           st == triplet_scatter([rowcount |-> rowcount,
                                  mapping |-> Zeros(Len(col)),
                                  newcol |-> col], row, col, 0)
           ret == CRSSparsity(nrow, ncol, st.newcol, rowcount)
       IN IF cnt.err THEN Error
          ELSE triplet_dedupe(triplet_sort(ret, st.mapping, columns_are_sorted),
                              columns_are_sorted, keepLast)

(* ------------------ reshape, vec, lowerSparsity, lowerNZ --------------- *)
reshape(a, n, m) ==
  IF ~(numel(a) = n * m) THEN Error
  ELSE LET row == getRow(a)
           z == [q \in 1..size(a) |-> a.col[q] + row[q] * a.ncol]
       IN sp_NZ([q \in 1..size(a) |-> z[q] \div m],
                [q \in 1..size(a) |-> z[q] % m], n, m, TRUE)

vec(a) == reshape(a, numel(a), 1)

\* lowerSparsity's loop: the entries with row[k] >= col[k] are copied in
\* storage order (kept as their storage indices).
RECURSIVE lower_keep(_, _, _)
lower_keep(row, col, kk) ==
  IF kk >= Len(row) THEN <<>>
  ELSE (IF Get(row, kk) >= Get(col, kk) THEN <<kk>> ELSE <<>>)
       \o lower_keep(row, col, kk + 1)

lowerSparsity(a) ==
  LET row == getRow(a)
      keep == lower_keep(row, a.col, 0)
  IN sp_NZ([q \in 1..Len(keep) |-> Get(row, keep[q])],
           [q \in 1..Len(keep) |-> Get(a.col, keep[q])],
           a.nrow, a.ncol, TRUE)

\* A faulty variant of the loop that drops the diagonal: row[k] > col[k].
RECURSIVE lowerNZ_loop_strict(_, _, _, _)
lowerNZ_loop_strict(row, col, kk, ret) ==
  IF kk >= Len(row) THEN ret
  ELSE lowerNZ_loop_strict(row, col, kk + 1,
                           IF Get(row, kk) > Get(col, kk) THEN Append(ret, kk)
                           ELSE ret)

\* lowerNZ's loop: if (row[k] >= col[k]) ret[cnt++]=k.
RECURSIVE lowerNZ_loop(_, _, _, _)
lowerNZ_loop(row, col, kk, ret) ==
  IF kk >= Len(row) THEN ret
  ELSE lowerNZ_loop(row, col, kk + 1,
                    IF Get(row, kk) >= Get(col, kk) THEN Append(ret, kk)
                    ELSE ret)

lowerNZ(a) == lowerNZ_loop(getRow(a), a.col, 0, <<>>)

(* ------------------- the sparsity tools as a machine ------------------- *)
\* The QR kernel is not running.
QRIdle ==
  /\ pc = "idle" /\ inst = <<>> /\ iw = <<>> /\ x = <<>>
  /\ c = 0 /\ k = 0 /\ r = 0 /\ len = 0 /\ top = 0 /\ k1 = 0
  /\ nnz_v = 0 /\ nnz_r = 0 /\ nz_r = <<>>
  /\ visited = {} /\ pushed = <<>> /\ disc = <<>>

NoArg == [n |-> 0, p |-> 0, nrow |-> 0, ncol |-> 0, row |-> <<>>,
          col |-> <<>>, flag |-> FALSE, keepLast |-> FALSE]
NoOut == [op |-> "none", n |-> 0, m |-> 0, mid |-> Error, back |-> Error,
          nz |-> <<>>]

InitSp ==
  /\ phase = "start" /\ op = "none" /\ arg = NoArg /\ res = Error
  /\ out = NoOut

\* The shapes (nrow, ncol) of at most MaxCells elements.
Shapes ==
  {sh \in (0..MaxCells) \X (0..MaxCells) : sh[1] * sh[2] <= MaxCells}

\* An index list of the same length as row, or one entry longer.
ColsFor(row, ncol) ==
  [1..Len(row) -> 0..ncol] \cup {[i \in 1..(Len(row) + 1) |-> 0]}

Built(name, a, result) ==
  /\ phase' = "built" /\ op' = name /\ arg' = a /\ res' = result
  /\ UNCHANGED out
  /\ UNCHANGED qrvars

Tril ==
  /\ phase = "start"
  /\ \E n \in (-1)..MaxN :
    Built("sp_tril", [NoArg EXCEPT !.n = n], sp_tril(n))

Diag ==
  /\ phase = "start"
  /\ \E n \in (-1)..MaxN :
    Built("sp_diag", [NoArg EXCEPT !.n = n], sp_diag(n))

Band ==
  /\ phase = "start"
  /\ \E n \in (-1)..MaxN : \E p \in (-MaxN)..MaxN :
    Built("sp_band", [NoArg EXCEPT !.n = n, !.p = p], sp_band(n, p))

RowCol ==
  /\ phase = "start"
  /\ \E shape \in Shapes :
    \E row \in SeqsUpTo(0..shape[1], MaxLen) :
      \E col \in SeqsUpTo(0..shape[2], MaxLen) :
        Built("sp_rowcol",
              [NoArg EXCEPT !.nrow = shape[1], !.ncol = shape[2],
                            !.row = row, !.col = col],
              sp_rowcol(row, col, shape[1], shape[2]))

NZ ==
  /\ phase = "start"
  /\ \E shape \in Shapes :
    \E row \in SeqsUpTo(0..shape[1], MaxLen) :
      \E col \in ColsFor(row, shape[2]) : \E monotone \in BOOLEAN :
        Built("sp_NZ",
              [NoArg EXCEPT !.nrow = shape[1], !.ncol = shape[2], !.row = row,
                            !.col = col, !.flag = monotone],
              sp_NZ(row, col, shape[1], shape[2], monotone))

Triplet ==
  /\ phase = "start"
  /\ \E shape \in Shapes :
    \E row \in SeqsUpTo(0..shape[1], MaxLen) :
      \E col \in ColsFor(row, shape[2]) : \E columns_are_sorted \in BOOLEAN :
        \E keepLast \in (IF columns_are_sorted THEN {FALSE} ELSE BOOLEAN) :
          Built("sp_triplet",
                [NoArg EXCEPT !.nrow = shape[1], !.ncol = shape[2],
                              !.row = row, !.col = col,
                              !.flag = columns_are_sorted,
                              !.keepLast = keepLast],
                sp_triplet(shape[1], shape[2], row, col, columns_are_sorted,
                           keepLast))

\* A transformation takes a pattern that a constructor returned and that
\* satisfies the data-model invariant; the constructor's arguments are dead.
HavePattern == phase = "built" /\ res.status = "ok" /\ WellFormed(res.sp)

\* (n, m) with n*m the number of elements, or one row too many.
ReshapeTargets(a) ==
  {sh \in (0..MaxCells) \X (0..MaxCells) : sh[1] * sh[2] = numel(a)}
    \cup {<<a.nrow + 1, a.ncol + 1>>}

Reshape ==
  /\ HavePattern
  /\ \E sh \in ReshapeTargets(res.sp) :
       out' = [NoOut EXCEPT !.op = "reshape", !.n = sh[1], !.m = sh[2],
                            !.mid = reshape(res.sp, sh[1], sh[2])]
  /\ phase' = "reshaped" /\ arg' = NoArg
  /\ UNCHANGED <<op, res>>
  /\ UNCHANGED qrvars

ReshapeBack ==
  /\ phase = "reshaped" /\ out.mid.status = "ok" /\ WellFormed(out.mid.sp)
  /\ out' = [out EXCEPT !.op = "reshape_back",
                        !.back = reshape(out.mid.sp, res.sp.nrow, res.sp.ncol)]
  /\ phase' = "done"
  /\ UNCHANGED <<op, arg, res>>
  /\ UNCHANGED qrvars

Vec ==
  /\ HavePattern
  /\ out' = [NoOut EXCEPT !.op = "vec", !.mid = vec(res.sp)]
  /\ phase' = "done" /\ arg' = NoArg
  /\ UNCHANGED <<op, res>>
  /\ UNCHANGED qrvars

Lower ==
  /\ HavePattern
  /\ out' = [NoOut EXCEPT !.op = "lower", !.mid = lowerSparsity(res.sp),
                          !.nz = lowerNZ(res.sp)]
  /\ phase' = "done" /\ arg' = NoArg
  /\ UNCHANGED <<op, res>>
  /\ UNCHANGED qrvars

Init == InitSp /\ QRIdle

Next ==
  \/ Tril \/ Diag \/ Band \/ RowCol \/ NZ \/ Triplet
  \/ Reshape \/ ReshapeBack \/ Vec \/ Lower

Spec == Init /\ [][Next]_vars

(* ------------------------------ casadi_qr ------------------------------ *)
\* An instance I holds the arguments: ncol, nrow_ext, colind and row (sp_a,
\* compressed columns), v_colind and v_row (sp_v), leftmost, parent, pinv.
\* A machine state m holds the buffers and the locals.  The caller's integer
\* buffer is one array: s = iw occupies its first ncol entries and the marks
\* (iw after "iw += ncol") the nrow_ext entries after them.  x[r] is 0, or 1
\* when a value was stored there and not zeroed since.  nz_a, nz_v and beta
\* hold numbers the control flow never reads; they are not part of the state.
InBuf(I, idx) == idx >= 0 /\ idx < I.ncol + I.nrow_ext
markAt(I, m, rr) == Get(m.iw, I.ncol + rr)
setMark(I, w, rr, v) == Set(w, I.ncol + rr, v)
Ub(m) == [m EXCEPT !.pc = "ub"]
\* The declared rows of V(:, cc).
VCol(I, cc) == SubSeq(I.v_row, Get(I.v_colind, cc) + 1, Get(I.v_colind, cc + 1))

RECURSIVE SetAll(_, _, _, _)
SetAll(v, rows, j, val) ==
  IF j > Len(rows) THEN v ELSE SetAll(Set(v, rows[j], val), rows, j + 1, val)

\* A faulty variant that leaves the marks as it found them.
qr_clear_x_only(I, m) ==
  [m EXCEPT !.x = Zeros(I.nrow_ext),
            !.nnz_r = 0, !.nnz_v = 0, !.c = 0, !.pc = "col"]

\* Clear workspace x; clear w to mark nodes; nnz_r = nnz_v = 0; c = 0.
qr_clear(I, m) ==
  [m EXCEPT !.x = Zeros(I.nrow_ext),
            !.iw = [i \in 1..(I.ncol + I.nrow_ext) |->
                      IF i > I.ncol THEN -1 ELSE m.iw[i]],
            !.nnz_r = 0, !.nnz_v = 0, !.c = 0, !.pc = "col"]

\* for (c=0; c<ncol; ++c): k1 = nnz_v; iw[c] = c; nnz_v++; top = ncol.
qr_column(I, m) ==
  IF m.c < I.ncol
  THEN [m EXCEPT !.k1 = m.nnz_v, !.iw = setMark(I, m.iw, m.c, m.c),
                 !.nnz_v = m.nnz_v + 1, !.top = I.ncol,
                 !.k = Get(I.colind, m.c),
                 !.visited = {m.c}, !.pushed = <<>>, !.disc = <<m.c>>,
                 !.pc = "nz"]
  ELSE [m EXCEPT !.pc = "done"]

\* for (k=colind[c]; k<colind[c+1]; ++k): r = leftmost[row[k]]; len = 0.
qr_nonzero(I, m) ==
  IF m.k < Get(I.colind, m.c + 1)
  THEN [m EXCEPT !.r = Get(I.leftmost, Get(I.row, m.k)), !.len = 0,
                 !.pc = "walk"]
  ELSE [m EXCEPT !.k = m.top, !.pc = "drain"]

\* A faulty variant of the walk that stores the path without marking it.
qr_walk_unmarked(I, m) ==
  IF ~InBuf(I, I.ncol + m.r) THEN Ub(m)
  ELSE IF markAt(I, m, m.r) # m.c
  THEN IF ~InBuf(I, m.len) \/ m.r < 0 \/ m.r >= I.ncol THEN Ub(m)
       ELSE [m EXCEPT !.iw = Set(m.iw, m.len, m.r),
                      !.len = m.len + 1,
                      !.r = Get(I.parent, m.r)]
  ELSE [m EXCEPT !.pc = "push"]

\* for (len=0; iw[r]!=c; r=parent[r]) { s[len++] = r; iw[r] = c; }
qr_walk(I, m) ==
  IF ~InBuf(I, I.ncol + m.r) THEN Ub(m)
  ELSE IF markAt(I, m, m.r) # m.c
  THEN IF ~InBuf(I, m.len) \/ m.r < 0 \/ m.r >= I.ncol THEN Ub(m)
       ELSE [m EXCEPT !.iw = setMark(I, Set(m.iw, m.len, m.r), m.r, m.c),
                      !.len = m.len + 1,
                      !.visited = m.visited \cup {m.r},
                      !.r = Get(I.parent, m.r)]
  ELSE [m EXCEPT !.pc = "push"]

\* while (len>0) s[--top] = s[--len];
qr_push(I, m) ==
  IF m.len > 0
  THEN IF ~InBuf(I, m.top - 1) THEN Ub(m)
       ELSE [m EXCEPT !.top = m.top - 1, !.len = m.len - 1,
                      !.iw = Set(m.iw, m.top - 1, Get(m.iw, m.len - 1)),
                      !.pushed = Append(m.pushed, Get(m.iw, m.len - 1))]
  ELSE [m EXCEPT !.pc = "scatter"]

\* r = pinv[row[k]]; x[r] = nz_a[k];
\* if (r>c && iw[r]<c) { nnz_v++; iw[r] = c; }
qr_scatter(I, m) ==
  LET rr == Get(I.pinv, Get(I.row, m.k))
  IN IF rr < 0 \/ rr >= I.nrow_ext THEN Ub(m)
     ELSE IF rr > m.c /\ markAt(I, m, rr) < m.c
     THEN [m EXCEPT !.r = rr, !.x = Set(m.x, rr, 1),
                    !.nnz_v = m.nnz_v + 1,
                    !.iw = setMark(I, m.iw, rr, m.c),
                    !.visited = m.visited \cup {rr},
                    !.disc = Append(m.disc, rr),
                    !.k = m.k + 1, !.pc = "nz"]
     ELSE [m EXCEPT !.r = rr, !.x = Set(m.x, rr, 1),
                    !.k = m.k + 1, !.pc = "nz"]

\* if (parent[r]==c): every row r2 of V(:,r) with iw[r2]<c is marked and
\* counted into V(:,c).
RECURSIVE qr_fill(_, _, _, _)
qr_fill(I, m, rows, j) ==
  IF j > Len(rows) THEN m
  ELSE qr_fill(I,
               IF markAt(I, m, rows[j]) < m.c
               THEN [m EXCEPT !.iw = setMark(I, m.iw, rows[j], m.c),
                              !.nnz_v = m.nnz_v + 1,
                              !.visited = m.visited \cup {rows[j]},
                              !.disc = Append(m.disc, rows[j])]
               ELSE m,
               rows, j + 1)

\* for (k = top; k<ncol; ++k): r = s[k]; apply (V(r), beta(r)) to x, which
\* stores into x at every row of V(:,r); nz_r[nnz_r++] = x[r]; x[r] = 0;
\* then the fill of V(:,c).
qr_drain(I, m) ==
  IF m.k < I.ncol
  THEN LET rr == Get(m.iw, m.k)
       IN IF rr < 0 \/ rr >= I.ncol THEN Ub(m)
          ELSE LET rows == VCol(I, rr)
                   m1 == [m EXCEPT !.r = rr,
                                   !.x = Set(SetAll(m.x, rows, 1, 1), rr, 0),
                                   !.nz_r = Append(m.nz_r, <<rr, m.c>>),
                                   !.nnz_r = m.nnz_r + 1,
                                   !.k = m.k + 1]
               IN IF Get(I.parent, rr) = m.c THEN qr_fill(I, m1, rows, 1)
                  ELSE m1
  ELSE [m EXCEPT !.pc = "gather"]

\* A faulty variant of the gather that reads x without zeroing it.
qr_gather_keep(I, m) ==
  IF m.nnz_v > Len(I.v_row) THEN Ub(m)
  ELSE [m EXCEPT !.k = m.nnz_v, !.pc = "house"]

\* Gather V(:,c) = x: for (k=k1; k<nnz_v; ++k) x[v_row[k]] = 0.
qr_gather(I, m) ==
  IF m.nnz_v > Len(I.v_row) THEN Ub(m)
  ELSE [m EXCEPT !.x = SetAll(m.x, SubSeq(I.v_row, m.k1 + 1, m.nnz_v), 1, 0),
                 !.k = m.nnz_v, !.pc = "house"]

\* nz_r[nnz_r++] = casadi_house(nz_v + k1, beta + c, nnz_v-k1): R(c,c); ++c.
qr_house(I, m) ==
  [m EXCEPT !.nz_r = Append(m.nz_r, <<m.c, m.c>>), !.nnz_r = m.nnz_r + 1,
            !.c = m.c + 1, !.pc = "col"]

qr_step(I, m) ==
  CASE m.pc = "clear" -> qr_clear(I, m)
    [] m.pc = "col" -> qr_column(I, m)
    [] m.pc = "nz" -> qr_nonzero(I, m)
    [] m.pc = "walk" -> qr_walk(I, m)
    [] m.pc = "push" -> qr_push(I, m)
    [] m.pc = "scatter" -> qr_scatter(I, m)
    [] m.pc = "drain" -> qr_drain(I, m)
    [] m.pc = "gather" -> qr_gather(I, m)
    [] m.pc = "house" -> qr_house(I, m)
    [] OTHER -> m

\* The state on entry: buffers as the caller left them.
qr_entry(I, iw0, x0) ==
  [pc |-> "clear", iw |-> iw0, x |-> x0, c |-> 0, k |-> 0, r |-> 0,
   len |-> 0, top |-> 0, k1 |-> 0, nnz_v |-> 0, nnz_r |-> 0, nz_r |-> <<>>,
   visited |-> {}, pushed |-> <<>>, disc |-> <<>>]

(* ------------- the symbolic analysis that supplies the metadata -------- *)
\* largest number of columns of a matrix handed to casadi_qr
MaxQRCols == 3

\* Column cc of the n x n matrix with a full diagonal and the off-diagonal
\* entries S, rows in increasing order.
RECURSIVE RowsOfCol(_, _, _, _)
RowsOfCol(n, S, cc, i) ==
  IF i >= n THEN <<>>
  ELSE (IF i = cc \/ <<i, cc>> \in S THEN <<i>> ELSE <<>>)
       \o RowsOfCol(n, S, cc, i + 1)

RECURSIVE AllRows(_, _, _)
AllRows(n, S, cc) ==
  IF cc >= n THEN <<>> ELSE RowsOfCol(n, S, cc, 0) \o AllRows(n, S, cc + 1)

RECURSIVE ColPtr(_, _, _, _)
ColPtr(n, S, cc, acc) ==
  IF cc >= n THEN <<acc>>
  ELSE <<acc>> \o ColPtr(n, S, cc + 1, acc + Len(RowsOfCol(n, S, cc, 0)))

\* leftmost[i] = min(find(A(i,:)))
Leftmost(n, S) ==
  [q \in 1..n |->
     CHOOSE j \in 0..(n - 1) :
       /\ j = q - 1 \/ <<q - 1, j>> \in S
       /\ \A j2 \in 0..(j - 1) : ~(j2 = q - 1 \/ <<q - 1, j2>> \in S)]

RECURSIVE Root(_, _)
Root(par, i) == IF Get(par, i) = -1 THEN i ELSE Root(par, Get(par, i))

\* The column elimination tree: every row links the root of the previous
\* column that holds it to the current column.
RECURSIVE etree_col(_, _, _, _)
etree_col(st, kk, rows, j) ==
  IF j > Len(rows) THEN st
  ELSE LET prevcol == Get(st.prev, rows[j])
           st1 == [parent |->
                     IF prevcol # -1 /\ Root(st.parent, prevcol) # kk
                     THEN Set(st.parent, Root(st.parent, prevcol), kk)
                     ELSE st.parent,
                   prev |-> Set(st.prev, rows[j], kk)]
       IN etree_col(st1, kk, rows, j + 1)

RECURSIVE etree(_, _, _, _)
etree(n, S, kk, st) ==
  IF kk >= n THEN st.parent
  ELSE etree(n, S, kk + 1, etree_col(st, kk, RowsOfCol(n, S, kk, 0), 1))

\* The rows whose leftmost column is cc, in increasing order.
RECURSIVE QueueOf(_, _, _)
QueueOf(lm, cc, i) ==
  IF i >= Len(lm) THEN <<>>
  ELSE (IF Get(lm, i) = cc THEN <<i>> ELSE <<>>) \o QueueOf(lm, cc, i + 1)

\* The row permutation: column kk takes the first row of its queue as its
\* pivot row and hands the others to the front of its parent's queue.
RECURSIVE vcount(_, _, _, _, _)
vcount(kk, n, queues, pinv, parent) ==
  IF kk >= n THEN pinv
  ELSE IF Get(queues, kk) = <<>> THEN vcount(kk + 1, n, queues, pinv, parent)
  ELSE LET qk == Get(queues, kk)
           pa == Get(parent, kk)
       IN vcount(kk + 1, n,
                 IF pa # -1 /\ Tail(qk) # <<>>
                 THEN Set(queues, pa, Tail(qk) \o Get(queues, pa))
                 ELSE queues,
                 Set(pinv, Head(qk), kk), parent)

\* The pattern of V: the rows casadi_qr counts into V(:,c), column by column,
\* found by running the kernel's own passes over the columns declared so far.
RECURSIVE qr_symbolic(_, _)
qr_symbolic(I, m) ==
  IF m.pc = "done" \/ m.pc = "ub" THEN I
  ELSE IF m.pc = "gather"
  THEN LET I2 == [I EXCEPT !.v_row = I.v_row \o m.disc,
                           !.v_colind = Append(I.v_colind,
                                               Len(I.v_row) + Len(m.disc))]
       IN qr_symbolic(I2, qr_step(I2, m))
  ELSE qr_symbolic(I, qr_step(I, m))

MakeInstance(n, S) ==
  LET lm == Leftmost(n, S)
      par == etree(n, S, 0, [parent |-> [i \in 1..n |-> -1],
                             prev |-> [i \in 1..n |-> -1]])
      I0 == [ncol |-> n, nrow_ext |-> n,
             colind |-> ColPtr(n, S, 0, 0), row |-> AllRows(n, S, 0),
             leftmost |-> lm, parent |-> par,
             pinv |-> vcount(0, n, [q \in 1..n |-> QueueOf(lm, q - 1, 0)],
                             [i \in 1..n |-> -1], par),
             v_colind |-> <<0>>, v_row |-> <<>>]
  IN qr_symbolic(I0, qr_entry(I0, [i \in 1..(2 * n) |-> -1], Zeros(n)))

OffDiagonal(n) == {p \in (0..(n - 1)) \X (0..(n - 1)) : p[1] # p[2]}

(* ---------------------- casadi_qr as a machine ------------------------- *)
\* The sparsity tools are not running.
SpIdle ==
  /\ phase = "idle" /\ op = "none" /\ arg = NoArg /\ res = Error
  /\ out = NoOut

M == [pc |-> pc, iw |-> iw, x |-> x, c |-> c, k |-> k, r |-> r, len |-> len,
      top |-> top, k1 |-> k1, nnz_v |-> nnz_v, nnz_r |-> nnz_r, nz_r |-> nz_r,
      visited |-> visited, pushed |-> pushed, disc |-> disc]

Becomes(m) ==
  /\ pc' = m.pc /\ iw' = m.iw /\ x' = m.x /\ c' = m.c /\ k' = m.k
  /\ r' = m.r /\ len' = m.len /\ top' = m.top /\ k1' = m.k1
  /\ nnz_v' = m.nnz_v /\ nnz_r' = m.nnz_r /\ nz_r' = m.nz_r
  /\ visited' = m.visited /\ pushed' = m.pushed /\ disc' = m.disc
  /\ UNCHANGED inst
  /\ UNCHANGED spvars

\* On entry iw and x hold what an earlier call or the caller left in them.
InitQR ==
  /\ SpIdle
  /\ \E n \in 1..MaxQRCols : \E S \in SUBSET OffDiagonal(n) :
       /\ inst = MakeInstance(n, S)
       /\ \E stale \in (-1)..(n - 1) : \E dirty \in {0, 1} :
            /\ iw = [i \in 1..(2 * n) |-> stale]
            /\ x = [i \in 1..n |-> dirty]
  /\ pc = "clear"
  /\ c = 0 /\ k = 0 /\ r = 0 /\ len = 0 /\ top = 0 /\ k1 = 0
  /\ nnz_v = 0 /\ nnz_r = 0 /\ nz_r = <<>>
  /\ visited = {} /\ pushed = <<>> /\ disc = <<>>

Clear == pc = "clear" /\ Becomes(qr_clear(inst, M))
Column == pc = "col" /\ Becomes(qr_column(inst, M))
Nonzero == pc = "nz" /\ Becomes(qr_nonzero(inst, M))
Walk == pc = "walk" /\ Becomes(qr_walk(inst, M))
Push == pc = "push" /\ Becomes(qr_push(inst, M))
Scatter == pc = "scatter" /\ Becomes(qr_scatter(inst, M))
Drain == pc = "drain" /\ Becomes(qr_drain(inst, M))
Gather == pc = "gather" /\ Becomes(qr_gather(inst, M))
House == pc = "house" /\ Becomes(qr_house(inst, M))

NextQR ==
  \/ Clear \/ Column \/ Nonzero \/ Walk \/ Push \/ Scatter \/ Drain
  \/ Gather \/ House

SpecQR == InitQR /\ [][NextQR]_vars

(* ------------------------------ claims --------------------------------- *)
\* The (row, column) positions stored in a pattern.
Positions(a) == {<<getRow(a)[q], a.col[q]>> : q \in 1..Len(a.col)}
\* The (row, column) pairs handed to a constructor.
InputPairs == {<<arg.row[q], arg.col[q]>> : q \in 1..Len(arg.row)}
Returned == phase # "start" /\ res.status = "ok"
JustBuilt == phase = "built"

\* C1 (as claimed): every pattern a constructor returns has rowPtr of length
\* nrow+1, starting at 0, non-decreasing, ending at the length of colIndex,
\* and every colIndex entry in [0, ncol).
C1_ReturnedPatternsWellFormed ==
  /\ Returned => WellFormed(res.sp)
  /\ (out.op # "none" /\ out.mid.status = "ok") => WellFormed(out.mid.sp)
  /\ (out.op = "reshape_back" /\ out.back.status = "ok")
       => WellFormed(out.back.sp)

TripletReturned == JustBuilt /\ res.status = "ok" /\ op = "sp_triplet"
HasDuplicates ==
  \E q1, q2 \in 1..Len(arg.row) :
    q1 < q2 /\ arg.row[q1] = arg.row[q2] /\ arg.col[q1] = arg.col[q2]
\* Some row of the input lists a larger column before a smaller one.
HasDescent ==
  \E q1, q2 \in 1..Len(arg.row) :
    q1 < q2 /\ arg.row[q1] = arg.row[q2] /\ arg.col[q1] > arg.col[q2]
\* The input is row-then-column sorted with no duplicates.
SortedNoDup ==
  \A q1, q2 \in 1..Len(arg.row) :
    q1 < q2 => \/ arg.row[q1] < arg.row[q2]
               \/ arg.row[q1] = arg.row[q2] /\ arg.col[q1] < arg.col[q2]
InRange ==
  /\ Len(arg.row) = Len(arg.col)
  /\ \A q \in 1..Len(arg.row) : arg.row[q] < arg.nrow /\ arg.col[q] < arg.ncol

\* C2 (as claimed): for any input sp_triplet accepts, the number of nonzeros
\* of the result is the number of distinct (row, column) pairs of the input.
C2_NnzIsDistinctPairs ==
  TripletReturned => size(res.sp) = Cardinality(InputPairs)

\* C2 (amended): the number of nonzeros is the number of distinct input pairs
\* when columns_are_sorted is false or the input has no duplicate pair; with
\* columns_are_sorted true every input entry is kept, duplicates included.
C2_NnzIsDistinctPairsUnlessHinted ==
  TripletReturned =>
    /\ (~arg.flag \/ ~HasDuplicates) => size(res.sp) = Cardinality(InputPairs)
    /\ arg.flag => size(res.sp) = Len(arg.row)

C2_Witness ==
  /\ TripletReturned /\ ~arg.flag /\ HasDuplicates
  /\ Len(arg.row) = 3 /\ size(res.sp) = 2

\* C3: with columns_are_sorted = false the returned pattern is sequential
\* (columns strictly increasing inside every row) and its positions are
\* exactly the distinct input pairs, whatever the order and the duplicates of
\* the input; (2,2,[1,0,1],[0,1,0]) gives rowPtr [0,1,2], colIndex [1,0].
C3_UnsortedInputGivesSequential ==
  (JustBuilt /\ op = "sp_triplet" /\ ~arg.flag) =>
    /\ InRange => res.status = "ok"
    /\ res.status = "ok" =>
         /\ res.sp.nrow = arg.nrow /\ res.sp.ncol = arg.ncol
         /\ columnsSequential(res.sp, TRUE)
         /\ Positions(res.sp) = InputPairs
    /\ (arg.nrow = 2 /\ arg.ncol = 2 /\ arg.row = <<1, 0, 1>>
        /\ arg.col = <<0, 1, 0>>) =>
         res.sp.rowind = <<0, 1, 2>> /\ res.sp.col = <<1, 0>>

C3_Witness ==
  /\ TripletReturned /\ ~arg.flag /\ arg.nrow = 2 /\ arg.ncol = 2
  /\ arg.row = <<1, 0, 1>> /\ arg.col = <<0, 1, 0>>
  /\ res.sp.col = <<1, 0>>

\* C4: the mapping has one entry per output nonzero, and the entry of output
\* position q is an index into the input arrays whose (row, column) is the
\* position of q, also after the double transpose and the duplicate removal;
\* for a row-then-column sorted input without duplicates it is the identity.
C4_MappingNamesInputEntry ==
  TripletReturned =>
    /\ Len(res.mapping) = size(res.sp)
    /\ \A q \in 1..size(res.sp) :
         /\ res.mapping[q] \in 0..(Len(arg.row) - 1)
         /\ Get(arg.row, res.mapping[q]) = getRow(res.sp)[q]
         /\ Get(arg.col, res.mapping[q]) = res.sp.col[q]
    /\ SortedNoDup => res.mapping = [q \in 1..Len(arg.row) |-> q - 1]

C4_Witness ==
  /\ TripletReturned /\ ~arg.flag /\ HasDuplicates /\ HasDescent
  /\ Len(res.mapping) = 2 /\ res.mapping # <<0, 1>>

\* C5 (as claimed): for any pattern A and any (n, m) with n*m = A.rows*A.cols
\* the nonzeros of reshape(A, n, m) are at (z div m, z mod m), z = col +
\* row*A.cols, and reshaping back gives A's shape and A's set of positions.
FlatPositions(a, m) ==
  {<<(p[2] + p[1] * a.ncol) \div m, (p[2] + p[1] * a.ncol) % m>> :
     p \in Positions(a)}

C5_ReshapeRoundTrip ==
  /\ (out.op \in {"reshape", "reshape_back"} /\ out.n * out.m = numel(res.sp)) =>
       /\ out.mid.status = "ok"
       /\ WellFormed(out.mid.sp)
       /\ Positions(out.mid.sp) = FlatPositions(res.sp, out.m)
  /\ out.op = "reshape_back" =>
       /\ out.back.status = "ok"
       /\ out.back.sp.nrow = res.sp.nrow /\ out.back.sp.ncol = res.sp.ncol
       /\ WellFormed(out.back.sp)
       /\ Positions(out.back.sp) = Positions(res.sp)

\* C6: lowerSparsity(A) has A's shape and exactly the nonzeros of A with
\* row >= column; lowerNZ(A) lists exactly the storage indices of those
\* nonzeros in increasing order, as many as lowerSparsity(A) has nonzeros,
\* and the i-th nonzero of lowerSparsity(A) is A's nonzero at lowerNZ(A)[i].
C6_LowerMatchesLowerNZ ==
  out.op = "lower" =>
    LET a == res.sp
        low == out.mid.sp
        rowA == getRow(a)
    IN /\ out.mid.status = "ok"
       /\ WellFormed(low)
       /\ low.nrow = a.nrow /\ low.ncol = a.ncol
       /\ Len(out.nz) = size(low)
       /\ \A i \in 1..Len(out.nz) :
            /\ out.nz[i] \in 0..(size(a) - 1)
            /\ Get(rowA, out.nz[i]) >= Get(a.col, out.nz[i])
            /\ getRow(low)[i] = Get(rowA, out.nz[i])
            /\ low.col[i] = Get(a.col, out.nz[i])
            /\ i > 1 => out.nz[i - 1] < out.nz[i]
       /\ \A q \in 0..(size(a) - 1) :
            Get(rowA, q) >= Get(a.col, q) =>
              \E i \in 1..Len(out.nz) : out.nz[i] = q

C6_Witness ==
  /\ out.op = "lower" /\ size(res.sp) = 3 /\ Len(out.nz) = 1
  /\ out.nz = <<2>> /\ ~columnsSequential(res.sp, FALSE)

StrictlyIncreasing(v) == \A q \in 1..(Len(v) - 1) : v[q] < v[q + 1]
RowColCalled == JustBuilt /\ op = "sp_rowcol"

QRRunning == pc \in {"col", "nz", "walk", "push", "scatter", "drain",
                     "gather", "house", "done"}
InColumnPass == pc \in {"nz", "walk", "push", "scatter", "drain", "gather",
                        "house"}

\* C8: for every column c the off-diagonal values R(r, c) are appended to
\* nz_r in strictly increasing order of r and the diagonal R(c, c) last,
\* columns in order 0..ncol-1: nz_r is column-major with increasing rows
\* inside each column, whatever the elimination tree.
C8_ColumnMajorRowIncreasing ==
  QRRunning =>
    \A i \in 1..Len(nz_r) : \A j \in 1..Len(nz_r) :
      i < j => \/ nz_r[i][2] < nz_r[j][2]
               \/ nz_r[i][2] = nz_r[j][2] /\ nz_r[i][1] < nz_r[j][1]

\* C9: whatever iw held on entry, while column c is processed every mark is
\* -1 or a column index <= c, and a mark equal to c stands only on a row that
\* was visited for column c in this call; between columns no mark equals the
\* column about to start.
C9_MarksAreCurrent ==
  /\ QRRunning =>
       \A rr \in 0..(inst.nrow_ext - 1) :
         markAt(inst, M, rr) \in (-1)..(inst.ncol - 1)
  /\ InColumnPass =>
       \A rr \in 0..(inst.nrow_ext - 1) :
         /\ markAt(inst, M, rr) <= c
         /\ markAt(inst, M, rr) = c => rr \in visited
  /\ pc = "col" =>
       \A rr \in 0..(inst.nrow_ext - 1) : markAt(inst, M, rr) < c

\* Column 1 of a call that found the value 1 all over its buffer on entry
\* (s[0] still holds it: column 1 never stores 1 there), with row 0 marked by
\* column 0 and row 1 marked as current.
C9_Witness ==
  /\ pc = "house" /\ c = 1
  /\ Get(iw, 0) = 1
  /\ markAt(inst, M, 0) = 0
  /\ markAt(inst, M, 1) = 1

\* C10: with metadata and sp_v consistent with the input, x is all zero at
\* the start of every column iteration and on return; at the gather the
\* column's V entries start at v_colind[c] and the rows found for column c
\* are exactly the declared rows of V(:, c).
C10_WorkVectorZeroBetweenColumns ==
  /\ pc \in {"col", "done"} => \A i \in 1..Len(x) : x[i] = 0
  /\ pc = "gather" =>
       /\ k1 = Get(inst.v_colind, c)
       /\ nnz_v = Get(inst.v_colind, c + 1)
       /\ {disc[i] : i \in 1..Len(disc)}
            = {VCol(inst, c)[i] : i \in 1..Len(VCol(inst, c))}

\* The dense 3 x 3 input (parent[c] = c+1, leftmost[r] = 0, identity row
\* permutation) on return, all six values of R written.
C10_Witness ==
  /\ pc = "done" /\ inst.ncol = 3
  /\ inst.leftmost = <<0, 0, 0>>
  /\ inst.parent = <<1, 2, -1>>
  /\ inst.pinv = <<0, 1, 2>>
  /\ Len(inst.row) = 9
  /\ Len(nz_r) = 6

\* Following parent links from column j reaches column cc.
RECURSIVE Reaches(_, _, _)
Reaches(par, j, cc) ==
  IF j = cc THEN TRUE
  ELSE IF j < 0 \/ j >= Len(par) THEN FALSE
  ELSE Reaches(par, Get(par, j), cc)

\* For every nonzero (i, cc) of the input, the parent links from leftmost[i]
\* reach cc.
ConsistentMetadata ==
  \A cc \in 0..(inst.ncol - 1) :
    \A q \in (Get(inst.colind, cc) + 1)..Get(inst.colind, cc + 1) :
      Reaches(inst.parent, Get(inst.leftmost, inst.row[q]), cc)

\* C11: with consistent metadata no access leaves the buffers, every upward
\* walk stays at or below c and stops at a row already marked for c, and
\* 0 <= len <= top <= ncol throughout the column pass: a path entry is
\* written at s[len] with len < top, a stack entry at s[top-1] with
\* top-1 >= len-1 >= 0, so every stack write is inside s[0..ncol) and none
\* lands in the marks; a row is pushed at most once per column.
C11_StackStaysInBounds ==
  (QRRunning \/ pc = "ub") /\ ConsistentMetadata =>
    /\ pc # "ub"
    /\ InColumnPass =>
         /\ 0 <= len /\ len <= top /\ top <= inst.ncol
         /\ top = inst.ncol - Len(pushed)
         /\ \A i \in 1..Len(pushed) : \A j \in 1..Len(pushed) :
              i # j => pushed[i] # pushed[j]
         /\ \A i \in 1..Len(pushed) : pushed[i] \in 0..(c - 1)
    /\ pc = "walk" =>
         /\ r \in 0..c
         /\ markAt(inst, M, r) # c => len < top /\ len < inst.ncol /\ r < c
    /\ pc = "push" =>
         /\ markAt(inst, M, r) = c
         /\ len > 0 => top - 1 >= len - 1 /\ top - 1 < inst.ncol

\* A second path of one row waits in s[0..len) while the stack already holds
\* the row of an earlier path of the same column.
C11_Witness ==
  /\ ConsistentMetadata
  /\ pc = "push" /\ len = 1 /\ top = inst.ncol - 1
  /\ Len(pushed) = 1 /\ Get(iw, 0) # pushed[1]

====
